---- MODULE Spec2Model ----
(***************************************************************************)
(* Model of dyers-cockpit-api: the raw_items / processed_items tables and  *)
(* the handlers that write them (ingest, process), and the rss source      *)
(* bookkeeping (report).  Every pool.query is one SQL statement and is one *)
(* atomic step; the awaits between statements are the interleaving points  *)
(* of concurrently running handler invocations.                            *)
(***************************************************************************)
EXTENDS Integers, Sequences, FiniteSets, TLC

\* ------------------------------------------------------------------ bounds
NumItems == 2       \* raw_items rows present when the process handlers run
NumWorkers == 2     \* concurrently running process invocations
MaxThrows == 2      \* exceptions thrown inside processBatch over a run
NumUrls == 2        \* distinct urls submitted to ingest
NumClients == 2     \* concurrently running ingest requests
NumSources == 2     \* rows of the sources table
NumReporters == 2   \* concurrently running report requests
MaxClock == 3       \* minutes the clock runs

Workers == 1..NumWorkers
Clients == 1..NumClients
Reporters == 1..NumReporters

\* ------------------------------------------------------------------ values
NULL == "<null>"                 \* JS null / SQL NULL in a text column
None == << >>                    \* SQL NULL in a timestamp column
Some(x) == << x >>

Range(s) == {s[k] : k \in DOMAIN s}
Min(a, b) == IF a < b THEN a ELSE b
Max(a, b) == IF a < b THEN b ELSE a

\* String.prototype.trim on the strings the model feeds in
Trim(s) ==
    CASE s = " Coal " -> "Coal"
      [] s = "  " -> ""
      [] s = " " -> ""
      [] s = " s2 " -> "s2"
      [] OTHER -> s

\* String.prototype.toLowerCase on the strings the model feeds in
ToLowerCase(s) ==
    CASE s = "Coal" -> "coal"
      [] s = "Gold" -> "gold"
      [] s = "POLICY" -> "policy"
      [] s = "GOLD" -> "gold"
      [] OTHER -> s

\* ------------------------------------------------------------------ state
VARIABLES
    raw_items,        \* table raw_items: id -> row
    processed_items,  \* table processed_items: sequence of rows (id = position)
    pc,               \* per process invocation: the statement it is about to run
    picked,           \* picked.rows of the invocation
    idx,              \* position of the for-loop in picked.rows
    out,              \* the validated model output of the current row
    msg,              \* the caught error message of the current row
    results,          \* results[] of the invocation
    enriched,         \* raw ids the invocation has passed on to fetchText
    throws,           \* number of exceptions thrown so far
    ipc,              \* per ingest request: "idle", or "query" while its statement runs
    snap,             \* the raw_items rows visible to the running statement of a request
    last,             \* the last answer of an ingest handler
    sources,          \* table sources: id -> row
    source_seen,      \* table source_seen: <<source_id, item_key>> -> number of rows
    rpc,              \* per report request: the statement it is about to run
    txn,              \* per report request: its open transaction
    rlast,            \* the last answer of the report handler
    reported,         \* the keys of the seen_keys of every report that committed
    clock,            \* the database clock, in minutes
    dlast,            \* the last answer of the due-sources handler
    todo,             \* the sources a crawler was given and has not reported yet
    batch_limit       \* const limit of the process handler, per invocation

pvars == <<pc, picked, idx, out, msg, results, enriched, throws>>
ivars == <<ipc, snap, last>>
rvars == <<sources, source_seen, rpc, txn, rlast, reported, clock, dlast>>
cvars == <<todo, batch_limit>>
vars == <<raw_items, processed_items, pvars, ivars, rvars, cvars>>

\* ------------------------------------------------------------------ ingest/route.ts
\* crypto.createHash("sha256").update(url).digest("hex")
Sha256(u) == <<"sha256", u>>

\* String(body.url).trim(): a url is its text n, with or without blanks around it
TrimUrl(u) == [u EXCEPT !.pad = FALSE]

normVertical(v) ==
    LET s == ToLowerCase(Trim(v)) IN
    IF s = "ree" \/ s = "coal" \/ s = "policy" THEN s
    ELSE IF s = "" THEN "ree" ELSE s

\* jsonb a || b, and the object spread {...a, ...b}: the keys of b win
JsonConcat(a, b) ==
    [k \in (DOMAIN a) \cup (DOMAIN b) |-> IF k \in DOMAIN b THEN b[k] ELSE a[k]]

EmptyObject == [k \in {} |-> NULL]

\* the attribution fields a request body may carry
Attribution(a) ==
    CASE a = "rss" ->
            [source |-> "rss", source_channel_id |-> "c1", source_message_id |-> "m1",
             author_id |-> "a1", author_username |-> "alice"]
      [] OTHER ->
            [source |-> NULL, source_channel_id |-> NULL, source_message_id |-> NULL,
             author_id |-> NULL, author_username |-> NULL]

\* who submits: a bot forward with vertical and url only, or the rss crawler
Submissions ==
    { [vertical |-> "ree", attribution |-> "none", pad |-> FALSE],
      [vertical |-> " Coal ", attribution |-> "rss", pad |-> TRUE] }

MetadataInputs ==
    { [kind |-> "absent"],
      [kind |-> "object", value |-> [k \in {"extra"} |-> "1"]],
      [kind |-> "object", value |-> [k \in {"posted_at"} |-> "t1"]] }

\* the request bodies that pass the url/vertical check
Bodies ==
    { [url |-> [pad |-> s.pad, n |-> n], vertical |-> s.vertical,
       attribution |-> s.attribution, metadata |-> m, posted_at |-> t] :
         n \in 1..NumUrls, s \in Submissions, m \in MetadataInputs, t \in {NULL, "t1"} }

incomingMeta(b) ==
    IF b.metadata.kind = "object" THEN b.metadata.value ELSE EmptyObject

\* body.posted_at ?? incomingMeta.posted_at ?? null
PostedAt(b) ==
    IF b.posted_at # NULL THEN b.posted_at
    ELSE IF "posted_at" \in DOMAIN incomingMeta(b) THEN incomingMeta(b)["posted_at"]
    ELSE NULL

\* the query parameters $1..$9
Params(b) ==
    LET a == Attribution(b.attribution) IN
    [ vertical |-> normVertical(b.vertical),
      url |-> TrimUrl(b.url),
      url_hash |-> Sha256(TrimUrl(b.url)),
      source |-> IF a.source = NULL THEN "discord" ELSE a.source,
      source_channel_id |-> a.source_channel_id,
      source_message_id |-> a.source_message_id,
      author_id |-> a.author_id,
      author_username |-> a.author_username,
      metadata |-> JsonConcat(incomingMeta(b), [k \in {"posted_at"} |-> PostedAt(b)]) ]

\* the row insert into raw_items writes; status, created_at, processed_at and
\* last_error take their column defaults
RawRow(p, t) ==
    [ vertical |-> p.vertical, url |-> p.url, url_hash |-> p.url_hash,
      source |-> p.source, source_channel_id |-> p.source_channel_id,
      source_message_id |-> p.source_message_id, author_id |-> p.author_id,
      author_username |-> p.author_username, metadata |-> p.metadata,
      status |-> "new", created_at |-> t, processed_at |-> None, last_error |-> NULL ]

Conflicting(table, p) == {i \in DOMAIN table : table[i].url_hash = p.url_hash}

NewId(table) == Cardinality(DOMAIN table) + 1

\* the insert without its on conflict clause (and without the unique index)
InsertRawAlways(table, p) ==
    [i \in (DOMAIN table) \cup {NewId(table)} |->
        IF i \in DOMAIN table THEN table[i] ELSE RawRow(p, i)]

\* insert into raw_items ... on conflict (url_hash) do nothing returning id
InsertRaw(table, p) ==
    IF Conflicting(table, p) # {} THEN table
    ELSE [i \in (DOMAIN table) \cup {NewId(table)} |->
            IF i \in DOMAIN table THEN table[i] ELSE RawRow(p, i)]

\* an update that also takes the attribution of the duplicate
UpdateAll(row, p) ==
    [row EXCEPT !.metadata = JsonConcat(@, p.metadata), !.source = p.source,
                !.author_id = p.author_id]

\* set metadata = coalesce(raw_items.metadata,'{}'::jsonb) || $9::jsonb
UpdateMetadata(row, p) ==
    [row EXCEPT !.metadata = JsonConcat(@, p.metadata)]

\* the statement reaches the database and takes its snapshot (read committed)
IngestBegin(c) ==
    /\ ipc[c] = "idle"
    /\ ipc' = [ipc EXCEPT ![c] = "query"]
    /\ snap' = [snap EXCEPT ![c] = DOMAIN raw_items]
    /\ UNCHANGED <<raw_items, processed_items, pvars, rvars, last>>

\* the id a returning clause gives back: null when no row was written
Returning(ids) == IF ids = {} THEN None ELSE Some(CHOOSE i \in ids : TRUE)

\* ingest/route.ts POST: the ins/upd statement and the answer.  ins sees every
\* committed row through the unique index; upd sees the rows of its snapshot.
POST(c, b) ==
    LET p == Params(b)
        afterIns == InsertRaw(raw_items, p)
        ins == (DOMAIN afterIns) \ (DOMAIN raw_items)
        upd == IF ins = {} THEN Conflicting(raw_items, p) \cap snap[c] ELSE {}
        inserted_id == Returning(ins)
        updated_id == Returning(upd)
    IN
    /\ ipc[c] = "query"
    /\ raw_items' = [i \in DOMAIN afterIns |->
                        IF i \in upd THEN UpdateMetadata(afterIns[i], p) ELSE afterIns[i]]
    /\ last' = [status |-> 200, url_hash |-> p.url_hash, source |-> p.source,
                inserted |-> (inserted_id # None),
                id |-> IF inserted_id # None THEN inserted_id ELSE updated_id]
    /\ ipc' = [ipc EXCEPT ![c] = "idle"]
    /\ snap' = [snap EXCEPT ![c] = {}]
    /\ UNCHANGED <<processed_items, pvars, rvars>>

\* part_002 POST: insert ... on conflict do nothing returning id, and the answer
POST_part_002(c, b) ==
    LET p == Params(b)
        afterIns == InsertRaw(raw_items, p)
        rows == (DOMAIN afterIns) \ (DOMAIN raw_items)
        inserted == Cardinality(rows) = 1
    IN
    /\ ipc[c] = "query"
    /\ raw_items' = afterIns
    /\ last' = [status |-> 200, url_hash |-> p.url_hash, source |-> p.source,
                inserted |-> inserted,
                id |-> IF inserted THEN Returning(rows) ELSE None]
    /\ ipc' = [ipc EXCEPT ![c] = "idle"]
    /\ snap' = [snap EXCEPT ![c] = {}]
    /\ UNCHANGED <<processed_items, pvars, rvars>>

\* a body without url or vertical: 400 before any statement
BadRequest(c) ==
    /\ ipc[c] = "idle"
    /\ last' = [status |-> 400]
    /\ UNCHANGED <<raw_items, processed_items, pvars, rvars, ipc, snap>>

\* the statement throws: 500, nothing written
IngestFails(c) ==
    /\ ipc[c] = "query"
    /\ last' = [status |-> 500]
    /\ ipc' = [ipc EXCEPT ![c] = "idle"]
    /\ snap' = [snap EXCEPT ![c] = {}]
    /\ UNCHANGED <<raw_items, processed_items, pvars, rvars>>

\* ------------------------------------------------------------------ sources/rss/report/route.ts
MaxSeenKeys == 200

\* body.seen_keys: not an array, or a list of keys ("" is the empty string)
SeenKeysInputs ==
    { [array |-> FALSE, keys |-> << >>],
      [array |-> TRUE, keys |-> << >>],
      [array |-> TRUE, keys |-> <<"k1", "k2">>],
      [array |-> TRUE, keys |-> <<"k2", "", "k2">>] }

\* etag, last_modified, last_error of a body (a string, or not a string)
BookkeepingInputs ==
    { [etag |-> "e1", last_modified |-> "m1", last_error |-> NULL],
      [etag |-> NULL, last_modified |-> NULL, last_error |-> "timeout"] }

\* seenKeys: .map(String).filter(s => s.length > 0).slice(0, 200)
seenKeys(in) ==
    IF in.array
    THEN LET kept == SelectSeq(in.keys, LAMBDA k : k # "")
         IN SubSeq(kept, 1, Min(Len(kept), MaxSeenKeys))
    ELSE << >>

NoTxn == [open |-> FALSE]

RowCount(table, row) == IF row \in DOMAIN table THEN table[row] ELSE 0

AddRows(table, rows) ==
    [row \in (DOMAIN table) \cup rows |-> RowCount(table, row) + (IF row \in rows THEN 1 ELSE 0)]

\* the rows an insert without on conflict adds: one per key
InsertSeenAlways(table, sid, keys) == {<<sid, k>> : k \in Range(keys)}

\* insert into source_seen ... select $1, k from unnest($2) on conflict do nothing:
\* the rows the statement adds
InsertSeen(table, sid, keys) ==
    {<<sid, k>> : k \in {x \in Range(keys) : <<sid, x>> \notin DOMAIN table}}

\* the rows of sources another open transaction has updated (and locked)
LockedBy(r) == IF txn[r].open /\ txn[r].updated THEN {txn[r].source_id} ELSE {}

\* the source_seen rows another open transaction has inserted
PendingRows(r) == IF txn[r].open THEN txn[r].rows ELSE {}

\* Number(body.source_id) is not finite or not positive: 400
BadSourceId(r) ==
    /\ rpc[r] = "idle"
    /\ rlast' = [status |-> 400]
    /\ UNCHANGED <<raw_items, processed_items, pvars, ivars, dlast,
                   sources, source_seen, rpc, txn, reported, clock>>

\* pool.connect(), begin: now() is the start of the transaction
ReportBegin(r) ==
    /\ rpc[r] = "idle"
    /\ \E sid \in 1..NumSources :
          txn' = [txn EXCEPT ![r] =
                    [open |-> TRUE, source_id |-> sid, now |-> clock, updated |-> FALSE,
                     etag |-> NULL, last_modified |-> NULL, last_error |-> NULL,
                     seen_keys |-> << >>, keys |-> << >>, rows |-> {}, ignored |-> 0]]
    /\ rpc' = [rpc EXCEPT ![r] = "update"]
    /\ UNCHANGED <<raw_items, processed_items, pvars, ivars, dlast,
                   sources, source_seen, rlast, reported, clock>>

\* update sources set last_polled_at = now(), etag, last_modified, last_error
\* where id = $1: written inside the transaction; waits for the row lock
ReportUpdate(r) ==
    /\ rpc[r] = "update"
    /\ \A r2 \in Reporters \ {r} : txn[r].source_id \notin LockedBy(r2)
    /\ \E m \in BookkeepingInputs :
          txn' = [txn EXCEPT ![r] =
                    [@ EXCEPT !.updated = TRUE, !.etag = m.etag,
                              !.last_modified = m.last_modified,
                              !.last_error = m.last_error]]
    /\ rpc' = [rpc EXCEPT ![r] = "insert"]
    /\ UNCHANGED <<raw_items, processed_items, pvars, ivars, dlast,
                   sources, source_seen, rlast, reported, clock>>

\* if (seenKeys.length) insert into source_seen ...: written inside the
\* transaction; waits for a transaction that inserted one of the keys
ReportInsert(r) ==
    /\ rpc[r] = "insert"
    /\ \E in \in SeenKeysInputs :
          LET keys == seenKeys(in)
              rows == IF Len(keys) > 0
                      THEN InsertSeen(source_seen, txn[r].source_id, keys) ELSE {}
          IN
          /\ \A r2 \in Reporters \ {r} : rows \cap PendingRows(r2) = {}
          /\ txn' = [txn EXCEPT ![r] =
                        [@ EXCEPT !.seen_keys = IF in.array THEN in.keys ELSE << >>,
                                  !.keys = keys, !.rows = rows,
                                  !.ignored = Cardinality(Range(keys)) - Cardinality(rows)]]
    /\ rpc' = [rpc EXCEPT ![r] = "commit"]
    /\ UNCHANGED <<raw_items, processed_items, pvars, ivars, dlast,
                   sources, source_seen, rlast, reported, clock>>

\* the committed update without last_polled_at = now()
BookkeepingKeepsPolledAt(table, t) ==
    IF t.updated /\ t.source_id \in DOMAIN table
    THEN [table EXCEPT ![t.source_id] =
            [@ EXCEPT !.etag = t.etag,
                      !.last_modified = t.last_modified, !.last_error = t.last_error]]
    ELSE table

\* the sources table once the transaction t is committed
Bookkeeping(table, t) ==
    IF t.updated /\ t.source_id \in DOMAIN table
    THEN [table EXCEPT ![t.source_id] =
            [@ EXCEPT !.last_polled_at = Some(t.now), !.etag = t.etag,
                      !.last_modified = t.last_modified, !.last_error = t.last_error]]
    ELSE table

\* commit, client.release(), Response.json({ ok: true, seen: seenKeys.length })
ReportCommit(r) ==
    /\ rpc[r] = "commit"
    /\ sources' = Bookkeeping(sources, txn[r])
    /\ source_seen' = AddRows(source_seen, txn[r].rows)
    /\ reported' = reported \cup
          {[source_id |-> txn[r].source_id, item_key |-> k,
            kept |-> k \in Range(txn[r].keys)] : k \in Range(txn[r].seen_keys)}
    /\ rlast' = [status |-> 200, seen |-> Len(txn[r].keys), ignored |-> txn[r].ignored]
    /\ txn' = [txn EXCEPT ![r] = NoTxn]
    /\ rpc' = [rpc EXCEPT ![r] = "idle"]
    /\ UNCHANGED <<raw_items, processed_items, pvars, ivars, dlast, clock>>

\* a rollback that leaves the update of sources in place
ReportRollbackKeepsUpdate(r) ==
    /\ rpc[r] \in {"update", "insert", "commit"}
    /\ sources' = Bookkeeping(sources, txn[r])
    /\ rlast' = [status |-> 500, at |-> rpc[r], rows |-> Cardinality(txn[r].rows)]
    /\ txn' = [txn EXCEPT ![r] = NoTxn]
    /\ rpc' = [rpc EXCEPT ![r] = "idle"]
    /\ UNCHANGED <<raw_items, processed_items, pvars, ivars, dlast, source_seen, reported, clock>>

\* a statement or the commit throws, or the handler dies: rollback (by the
\* catch block, or by the database when the connection is gone), then 500
ReportRollback(r) ==
    /\ rpc[r] \in {"update", "insert", "commit"}
    /\ rlast' = [status |-> 500, at |-> rpc[r], rows |-> Cardinality(txn[r].rows)]
    /\ txn' = [txn EXCEPT ![r] = NoTxn]
    /\ rpc' = [rpc EXCEPT ![r] = "idle"]
    /\ UNCHANGED <<raw_items, processed_items, pvars, ivars, dlast,
                   sources, source_seen, reported, clock>>

InitReportIdle ==
    /\ source_seen = [row \in {} |-> 0]
    /\ rpc = [r \in Reporters |-> "idle"]
    /\ txn = [r \in Reporters |-> NoTxn]
    /\ rlast = [status |-> 0]
    /\ reported = {}
    /\ todo = << >>
    /\ batch_limit = [w \in Workers |-> 0]

\* the sources are configured from outside and have not been polled yet
InitSources ==
    /\ sources = [i \in 1..NumSources |->
                    [enabled |-> TRUE, type |-> "rss", poll_interval_min |-> i,
                     etag |-> NULL, last_modified |-> NULL, last_polled_at |-> None,
                     last_error |-> NULL]]
    /\ clock = 1
    /\ dlast = [status |-> 0]

\* ------------------------------------------------------------------ sources/rss/route.ts (part_001)
\* the limit parameter of a request: Number(n) is not finite, or an integer
DueLimitInputs ==
    {[finite |-> FALSE, value |-> 0]} \cup
    {[finite |-> TRUE, value |-> v] : v \in {0, 1, 501}}

\* clampLimit(n, def = 100) of part_001
clampLimit_part_001(n, def) ==
    IF ~n.finite \/ n.value <= 0 THEN def
    ELSE Max(1, Min(500, n.value))

\* last_polled_at <= now() - make_interval(mins => poll_interval_min)
IntervalElapsed(row, now) ==
    /\ row.last_polled_at # None
    /\ row.last_polled_at[1] <= now - row.poll_interval_min

\* the where clause of the select
Due(table, now) ==
    {i \in DOMAIN table :
        /\ table[i].enabled = TRUE
        /\ table[i].type = "rss"
        /\ (table[i].last_polled_at = None \/ IntervalElapsed(table[i], now))}

\* order by id asc only
OrderByIdOnly(table, i, j) == i < j

\* order by last_polled_at nulls first, id asc: row i sorts before row j
OrderBy(table, i, j) ==
    LET a == table[i].last_polled_at
        b == table[j].last_polled_at
    IN
    \/ a = None /\ b # None
    \/ a # None /\ b # None /\ a[1] < b[1]
    \/ a = b /\ i < j

\* the ids of the rows the select returns, in order, cut by limit $1
SelectDue(table, now, limit) ==
    LET due == Due(table, now)
        before(i) == Cardinality({j \in due : OrderBy(table, j, i)})
        sorted == [k \in 1..Cardinality(due) |-> CHOOSE i \in due : before(i) = k - 1]
    IN SubSeq(sorted, 1, Min(limit, Len(sorted)))

\* GET: one select, answered with its rows
GET_part_001 ==
    /\ \E n \in DueLimitInputs :
          LET limit == clampLimit_part_001(n, 100) IN
          dlast' = [status |-> 200, limit |-> limit,
                    sources |-> SelectDue(sources, clock, limit)]
    /\ UNCHANGED <<raw_items, processed_items, pvars, ivars,
                   sources, source_seen, rpc, txn, rlast, reported, clock>>

\* the select throws: 500
DueFails ==
    /\ dlast' = [status |-> 500]
    /\ UNCHANGED <<raw_items, processed_items, pvars, ivars,
                   sources, source_seen, rpc, txn, rlast, reported, clock>>

\* a minute passes
Tick ==
    /\ clock < MaxClock
    /\ clock' = clock + 1
    /\ UNCHANGED <<raw_items, processed_items, pvars, ivars,
                   sources, source_seen, rpc, txn, rlast, reported, dlast>>

\* the sources table as configured from outside: enabled or not, of type rss
\* or another, source i with a poll interval of i minutes; none polled yet
InitDueSources ==
    /\ \E enabled \in [1..NumSources -> BOOLEAN], type \in [1..NumSources -> {"rss", "atom"}] :
          sources = [i \in 1..NumSources |->
                        [enabled |-> enabled[i], type |-> type[i], poll_interval_min |-> i,
                         etag |-> NULL, last_modified |-> NULL, last_polled_at |-> None,
                         last_error |-> NULL]]
    /\ clock = 1
    /\ dlast = [status |-> 0]

\* ------------------------------------------------------------------ process/route.ts
\* a request's limit: Number(n) is either not finite or an integer value
LimitInputs ==
    {[finite |-> FALSE, value |-> 0]} \cup
    {[finite |-> TRUE, value |-> v] : v \in {0 - 1, 0, 1, NumItems, 51}}

clampLimit(n, def) ==
    IF ~n.finite \/ n.value <= 0 THEN def
    ELSE Max(1, Min(50, n.value))

\* const out before callOpenAI has returned
NoOutput == [undefined |-> TRUE]

\* a JSON value of the model output: a number or a string
JNum(n) == [number |-> n]
JStr(t) == [string |-> t]
NaN == [nan |-> TRUE]

\* Number(v): a number is itself, a string that is not numeric is NaN
Number(v) == IF "number" \in DOMAIN v THEN v ELSE NaN

\* the output the prompt asks for
GoodOutput ==
    [summary_1 |-> "s1", bullets |-> <<"a", "b", "c", "d", "e">>, title |-> "t1",
     why_it_matters |-> "w1", tags |-> Some(<<"Mining">>),
     relevance_score |-> Some(JNum(50)), visibility |-> "public"]

\* what the model may answer: the parsed JSON object (a key that is absent is
\* None, or NULL where the value is text)
ModelOutputs ==
    { GoodOutput,
      [GoodOutput EXCEPT !.summary_1 = " s2 ", !.title = NULL, !.why_it_matters = NULL,
                         !.tags = Some(<<"Policy", "Finance">>),
                         !.relevance_score = Some(JNum(80)), !.visibility = "pro"],
      [GoodOutput EXCEPT !.summary_1 = "  "],
      [GoodOutput EXCEPT !.bullets = <<"a", "b", "c", "d">>] }

NineTags ==
    <<"Mining", "Concentrate", "MREC", "Separation", "Metal", "Magnet", "Recycling",
      "Policy", "Finance">>

\* the answers that do not keep to the prompt
EnrichOutputs ==
    ModelOutputs \cup
    { [GoodOutput EXCEPT !.bullets = <<"a", "b", "c", "d", "e", "f">>],
      [GoodOutput EXCEPT !.bullets = <<"a", "b", "", "d", "e">>],
      [GoodOutput EXCEPT !.bullets = <<"a", "b", " ", "d", "e">>],
      [GoodOutput EXCEPT !.relevance_score = Some(JNum(150))],
      [GoodOutput EXCEPT !.relevance_score = Some(JNum(0 - 5))],
      [GoodOutput EXCEPT !.relevance_score = Some(JStr("high"))],
      [GoodOutput EXCEPT !.relevance_score = None],
      [GoodOutput EXCEPT !.tags = Some(<<"Mining", "Crypto">>)],
      [GoodOutput EXCEPT !.tags = Some(<<"Crypto">>)],
      [GoodOutput EXCEPT !.tags = Some(NineTags)],
      [GoodOutput EXCEPT !.tags = None],
      [GoodOutput EXCEPT !.visibility = "secret"],
      [GoodOutput EXCEPT !.visibility = NULL] }

OPENAI_MODEL == "gpt-4.1-mini"

NewIds == {i \in DOMAIN raw_items : raw_items[i].status = "new"}

\* the select without its order by: any rows of status new, cut by limit $1
SelectNewAnyOrder(limit) ==
    LET n == Min(limit, Cardinality(NewIds)) IN
    { s \in [1..n -> NewIds] : \A j, k \in 1..n : j < k => s[j] # s[k] }

\* select ... where status = 'new' order by created_at asc limit $1:
\* every row sequence the statement may return
SelectNew(limit) ==
    LET n == Min(limit, Cardinality(NewIds)) IN
    { s \in [1..n -> NewIds] :
        /\ \A j, k \in 1..n : j < k => s[j] # s[k]
        /\ \A j, k \in 1..n :
              j < k => raw_items[s[j]].created_at <= raw_items[s[k]].created_at
        /\ \A i \in NewIds \ Range(s) : \A j \in 1..n :
              raw_items[s[j]].created_at <= raw_items[i].created_at }

rawId(w) == picked[w][idx[w]]

\* a loop that ends at the first row that failed
NextRowUntilFailure(w, r) ==
    /\ results' = [results EXCEPT ![w] = Append(@, r)]
    /\ idx' = [idx EXCEPT ![w] = @ + 1]
    /\ pc' = [pc EXCEPT ![w] =
                IF idx[w] < Len(picked[w]) /\ r.ok THEN "update_processing" ELSE "return"]
    /\ out' = [out EXCEPT ![w] = NoOutput]
    /\ msg' = [msg EXCEPT ![w] = NULL]

\* the end of one for-loop iteration: results.push(...) and the next row
NextRow(w, r) ==
    /\ results' = [results EXCEPT ![w] = Append(@, r)]
    /\ idx' = [idx EXCEPT ![w] = @ + 1]
    /\ pc' = [pc EXCEPT ![w] =
                IF idx[w] < Len(picked[w]) THEN "update_processing" ELSE "return"]
    /\ out' = [out EXCEPT ![w] = NoOutput]
    /\ msg' = [msg EXCEPT ![w] = NULL]

\* a statement or an external call throws inside the try block
Throw(w, m) ==
    /\ throws < MaxThrows
    /\ throws' = throws + 1
    /\ pc' = [pc EXCEPT ![w] = "catch"]
    /\ msg' = [msg EXCEPT ![w] = m]
    /\ out' = [out EXCEPT ![w] = NoOutput]
    /\ UNCHANGED <<picked, idx, results>>

\* GET/POST: clampLimit, then the select of processBatch
processBatch_select(w, lim) ==
    /\ pc[w] = "idle"
    /\ \E s \in SelectNew(lim) :
          /\ picked' = [picked EXCEPT ![w] = s]
          /\ idx' = [idx EXCEPT ![w] = 1]
          /\ pc' = [pc EXCEPT ![w] = IF Len(s) > 0 THEN "update_processing" ELSE "return"]
    /\ UNCHANGED <<raw_items, processed_items, out, msg, results, enriched, throws>>

\* POST: const limit = clampLimit(url.searchParams.get("limit"), 20), then
\* processBatch(pool, limit) runs its select
ProcessSelect(w) ==
    \E n \in LimitInputs : processBatch_select(w, clampLimit(n, 20))

\* the same request, its limit kept
ProcessSelectLimit(w) ==
    \E n \in LimitInputs :
        /\ batch_limit' = [batch_limit EXCEPT ![w] = clampLimit(n, 20)]
        /\ processBatch_select(w, clampLimit(n, 20))

\* the select throws: processBatch rejects, the handler answers 500
ProcessSelectFails(w) ==
    /\ pc[w] = "idle"
    /\ pc' = [pc EXCEPT ![w] = "failed"]
    /\ UNCHANGED <<raw_items, processed_items, picked, idx, out, msg, results, enriched, throws>>

\* update raw_items set status='processing' where id=$1
UpdateProcessing(w) ==
    /\ pc[w] = "update_processing"
    /\ raw_items' = [raw_items EXCEPT ![rawId(w)].status = "processing"]
    /\ pc' = [pc EXCEPT ![w] = "fetch"]
    /\ enriched' = [enriched EXCEPT ![w] = @ \cup {rawId(w)}]
    /\ UNCHANGED <<processed_items, picked, idx, out, msg, results, throws>>

UpdateProcessingFails(w) ==
    /\ pc[w] = "update_processing"
    /\ Throw(w, "db error")
    /\ UNCHANGED <<raw_items, processed_items, enriched>>

\* fetchText(url)
\* t.slice(0, 400): the part of the answer of api.openai.com kept in a message
MaxErrorText == 400

\* the message of the TypeError of fetch(url) for a url of 500 characters
\* that is no url
LongMessage == "Failed to parse URL from <500 characters>"

\* String.prototype.length of the messages the model throws; "OpenAI failed
\* 500" stands for the longest `OpenAI failed ${r.status}: ${t.slice(0, 400)}`
Length(m) ==
    CASE m = "db error" -> 8
      [] m = "Fetch failed 500" -> 16
      [] m = "Could not parse model JSON" -> 26
      [] m = "Model output missing summary_1" -> 30
      [] m = "Model output bullets must be exactly 5" -> 38
      [] m = "OpenAI failed 500" -> 19 + MaxErrorText
      [] m = LongMessage -> 25 + 500

\* fetch(url) rejects before any request: the url of the raw item, which
\* ingest stored as it came, does not parse
fetchTextRejects(w) ==
    /\ pc[w] = "fetch"
    /\ Throw(w, LongMessage)
    /\ UNCHANGED <<raw_items, processed_items, enriched>>

fetchText(w) ==
    /\ pc[w] = "fetch"
    /\ \/ /\ pc' = [pc EXCEPT ![w] = "model"]
          /\ UNCHANGED <<picked, idx, out, msg, results, throws>>
       \/ Throw(w, "Fetch failed 500")
    /\ UNCHANGED <<raw_items, processed_items, enriched>>

\* the server of the url never completes its answer: fetch(url) carries no
\* signal and no timeout, so the await does not return
fetchTextNeverAnswers(w) ==
    /\ pc[w] = "fetch"
    /\ pc' = [pc EXCEPT ![w] = "awaiting"]
    /\ UNCHANGED <<raw_items, processed_items, picked, idx, out, msg, results,
                   enriched, throws>>

\* the same for the fetch of api.openai.com inside callOpenAI
callOpenAINeverAnswers(w) ==
    /\ pc[w] = "model"
    /\ pc' = [pc EXCEPT ![w] = "awaiting"]
    /\ UNCHANGED <<raw_items, processed_items, picked, idx, out, msg, results,
                   enriched, throws>>

\* the validation of processBatch after callOpenAI returned o
Validate(o) ==
    LET summary_1 == Trim(o.summary_1) IN
    IF summary_1 = "" THEN "Model output missing summary_1"
    ELSE IF Len(o.bullets) # 5 THEN "Model output bullets must be exactly 5"
    ELSE NULL

\* callOpenAI(...) and the validation that follows it
callOpenAI(w, outputs) ==
    /\ pc[w] = "model"
    /\ \/ \E o \in outputs :
            IF Validate(o) = NULL
            THEN /\ out' = [out EXCEPT ![w] = o]
                 /\ pc' = [pc EXCEPT ![w] = "insert"]
                 /\ UNCHANGED <<picked, idx, msg, results, throws>>
            ELSE Throw(w, Validate(o))
       \/ Throw(w, "OpenAI failed 500")
       \/ Throw(w, "Could not parse model JSON")
    /\ UNCHANGED <<raw_items, processed_items, enriched>>

\* the row the insert of processBatch writes
ProcessedRow(w) ==
    [ raw_item_id |-> rawId(w),
      vertical |-> ToLowerCase(raw_items[rawId(w)].vertical),
      url |-> raw_items[rawId(w)].url,
      title |-> out[w].title,
      summary_1 |-> Trim(out[w].summary_1),
      bullets |-> out[w].bullets,
      why_it_matters |-> out[w].why_it_matters,
      tags |-> IF out[w].tags = None THEN << >> ELSE out[w].tags[1],
      relevance_score |-> Number(IF out[w].relevance_score = None THEN JNum(0)
                                 ELSE out[w].relevance_score[1]),
      visibility |-> IF out[w].visibility = NULL THEN "public" ELSE out[w].visibility,
      model |-> OPENAI_MODEL,
      posted_at |-> None ]

\* the row the insert of part_003 writes: summary_1 and vertical as they are
ProcessedRow_part_003(w) ==
    [ProcessedRow(w) EXCEPT !.vertical = raw_items[rawId(w)].vertical,
                            !.summary_1 = out[w].summary_1]

\* the insert without its on conflict clause
InsertAlways(table, row) == Append(table, row)

\* insert into processed_items ... on conflict (raw_item_id) do nothing
InsertOnConflictDoNothing(table, row) ==
    IF \E k \in DOMAIN table : table[k].raw_item_id = row.raw_item_id
    THEN table
    ELSE Append(table, row)

InsertProcessed(w) ==
    /\ pc[w] = "insert"
    /\ processed_items' = InsertOnConflictDoNothing(processed_items, ProcessedRow(w))
    /\ pc' = [pc EXCEPT ![w] = "update_processed"]
    /\ UNCHANGED <<raw_items, picked, idx, out, msg, results, enriched, throws>>

\* part_003 POST: callOpenAI(content, url, vertical), and no validation; the
\* statements before it and after its insert are those of processBatch
callOpenAI_part_003(w, outputs) ==
    /\ pc[w] = "model"
    /\ \/ \E o \in outputs :
            /\ out' = [out EXCEPT ![w] = o]
            /\ pc' = [pc EXCEPT ![w] = "insert_part_003"]
            /\ UNCHANGED <<picked, idx, msg, results, throws>>
       \/ Throw(w, "OpenAI failed 500")
       \/ Throw(w, "Could not parse model JSON")
    /\ UNCHANGED <<raw_items, processed_items, enriched>>

InsertProcessed_part_003(w) ==
    /\ pc[w] = "insert_part_003"
    /\ processed_items' =
          InsertOnConflictDoNothing(processed_items, ProcessedRow_part_003(w))
    /\ pc' = [pc EXCEPT ![w] = "update_processed"]
    /\ UNCHANGED <<raw_items, picked, idx, out, msg, results, enriched, throws>>

\* the insert throws (the database is gone, or it refuses a value such as NaN)
InsertProcessedFails(w) ==
    /\ pc[w] \in {"insert", "insert_part_003"}
    /\ Throw(w, "db error")
    /\ UNCHANGED <<raw_items, processed_items, enriched>>

\* the update without last_error=null
UpdateProcessedKeepsError(w) ==
    /\ pc[w] = "update_processed"
    /\ raw_items' = [raw_items EXCEPT ![rawId(w)] =
            [@ EXCEPT !.status = "processed", !.processed_at = Some(1)]]
    /\ NextRow(w, [id |-> rawId(w), ok |-> TRUE, error |-> NULL])
    /\ UNCHANGED <<processed_items, picked, enriched, throws>>

\* update raw_items set status='processed', processed_at=now(), last_error=null
UpdateProcessed(w) ==
    /\ pc[w] = "update_processed"
    /\ raw_items' = [raw_items EXCEPT ![rawId(w)] =
            [@ EXCEPT !.status = "processed", !.processed_at = Some(1), !.last_error = NULL]]
    /\ NextRow(w, [id |-> rawId(w), ok |-> TRUE, error |-> NULL])
    /\ UNCHANGED <<processed_items, picked, enriched, throws>>

UpdateProcessedFails(w) ==
    /\ pc[w] = "update_processed"
    /\ Throw(w, "db error")
    /\ UNCHANGED <<raw_items, processed_items, enriched>>

\* catch: update raw_items set status='error', last_error=$2 where id=$1
CatchUpdateError(w) ==
    /\ pc[w] = "catch"
    /\ raw_items' = [raw_items EXCEPT ![rawId(w)] =
            [@ EXCEPT !.status = "error", !.last_error = msg[w]]]
    /\ NextRow(w, [id |-> rawId(w), ok |-> FALSE, error |-> msg[w]])
    /\ UNCHANGED <<processed_items, picked, enriched, throws>>

\* the update inside catch throws: processBatch rejects with rows left over
CatchUpdateErrorFails(w) ==
    /\ pc[w] = "catch"
    /\ throws < MaxThrows
    /\ throws' = throws + 1
    /\ pc' = [pc EXCEPT ![w] = "failed"]
    /\ UNCHANGED <<raw_items, processed_items, picked, idx, out, msg, results, enriched>>

\* the handler answers (Response.json or the 500) and the invocation is over
ProcessReturn(w) ==
    /\ pc[w] \in {"return", "failed"}
    /\ pc' = [pc EXCEPT ![w] = "idle"]
    /\ picked' = [picked EXCEPT ![w] = << >>]
    /\ idx' = [idx EXCEPT ![w] = 1]
    /\ out' = [out EXCEPT ![w] = NoOutput]
    /\ msg' = [msg EXCEPT ![w] = NULL]
    /\ results' = [results EXCEPT ![w] = << >>]
    /\ enriched' = [enriched EXCEPT ![w] = {}]
    /\ UNCHANGED <<raw_items, processed_items, throws>>

InitIngestIdle ==
    /\ ipc = [c \in Clients |-> "idle"]
    /\ snap = [c \in Clients |-> {}]
    /\ last = [status |-> 0]

\* the rows present when the process handlers run: NumItems urls, each
\* ingested once with vertical and url only
InitProcess ==
    /\ raw_items = [i \in 1..NumItems |->
            RawRow(Params([url |-> [pad |-> FALSE, n |-> i], vertical |-> "ree",
                           attribution |-> "none",
                           metadata |-> [kind |-> "absent"], posted_at |-> NULL]), i)]
    /\ InitIngestIdle
    /\ InitReportIdle
    /\ InitSources
    /\ processed_items = << >>
    /\ pc = [w \in Workers |-> "idle"]
    /\ picked = [w \in Workers |-> << >>]
    /\ idx = [w \in Workers |-> 1]
    /\ out = [w \in Workers |-> NoOutput]
    /\ msg = [w \in Workers |-> NULL]
    /\ results = [w \in Workers |-> << >>]
    /\ enriched = [w \in Workers |-> {}]
    /\ throws = 0

NextProcess ==
    \E w \in Workers :
      /\ UNCHANGED <<ivars, rvars, cvars>>
      /\
        \/ ProcessSelect(w)
        \/ ProcessSelectFails(w)
        \/ UpdateProcessing(w)
        \/ UpdateProcessingFails(w)
        \/ fetchText(w)
        \/ callOpenAI(w, ModelOutputs)
        \/ InsertProcessed(w)
        \/ InsertProcessedFails(w)
        \/ UpdateProcessed(w)
        \/ UpdateProcessedFails(w)
        \/ CatchUpdateError(w)
        \/ CatchUpdateErrorFails(w)
        \/ ProcessReturn(w)

SpecProcess == InitProcess /\ [][NextProcess]_vars

\* one invocation at a time, of either process handler, and every model output
InitEnrich == InitProcess

NextEnrich ==
    /\ UNCHANGED <<ivars, rvars, cvars>>
    /\
      \/ ProcessSelect(1)
      \/ ProcessSelectFails(1)
      \/ UpdateProcessing(1)
      \/ UpdateProcessingFails(1)
      \/ fetchText(1)
      \/ callOpenAI(1, EnrichOutputs)
      \/ callOpenAI_part_003(1, EnrichOutputs)
      \/ InsertProcessed(1)
      \/ InsertProcessed_part_003(1)
      \/ InsertProcessedFails(1)
      \/ UpdateProcessed(1)
      \/ UpdateProcessedFails(1)
      \/ CatchUpdateError(1)
      \/ CatchUpdateErrorFails(1)
      \/ ProcessReturn(1)

SpecEnrich == InitEnrich /\ [][NextEnrich]_vars

\* one invocation at a time over a database that works, and external servers
\* that answer, fail or never answer; the handler is scheduled fairly
InitAwait == InitProcess

NextAwait ==
    /\ UNCHANGED <<ivars, rvars, cvars>>
    /\
      \/ ProcessSelect(1)
      \/ UpdateProcessing(1)
      \/ fetchText(1)
      \/ fetchTextNeverAnswers(1)
      \/ callOpenAI(1, ModelOutputs)
      \/ callOpenAINeverAnswers(1)
      \/ InsertProcessed(1)
      \/ UpdateProcessed(1)
      \/ CatchUpdateError(1)
      \/ ProcessReturn(1)

SpecAwait == InitAwait /\ [][NextAwait]_vars /\ WF_vars(NextAwait)

\* concurrent invocations over a database and servers that work, and raw items
\* created in any order, two of them possibly at the same time
InitClaim ==
    /\ \E t \in [1..NumItems -> 1..NumItems] :
          raw_items = [i \in 1..NumItems |->
            RawRow(Params([url |-> [pad |-> FALSE, n |-> i], vertical |-> "ree",
                           attribution |-> "none",
                           metadata |-> [kind |-> "absent"], posted_at |-> NULL]), t[i])]
    /\ InitIngestIdle
    /\ InitReportIdle
    /\ InitSources
    /\ processed_items = << >>
    /\ pc = [w \in Workers |-> "idle"]
    /\ picked = [w \in Workers |-> << >>]
    /\ idx = [w \in Workers |-> 1]
    /\ out = [w \in Workers |-> NoOutput]
    /\ msg = [w \in Workers |-> NULL]
    /\ results = [w \in Workers |-> << >>]
    /\ enriched = [w \in Workers |-> {}]
    /\ throws = 0

NextClaim ==
    \E w \in Workers :
      /\ UNCHANGED <<ivars, rvars, todo>>
      /\
        \/ ProcessSelectLimit(w)
        \/ UpdateProcessing(w) /\ UNCHANGED batch_limit
        \/ fetchText(w) /\ UNCHANGED batch_limit
        \/ callOpenAI(w, {GoodOutput}) /\ UNCHANGED batch_limit
        \/ InsertProcessed(w) /\ UNCHANGED batch_limit
        \/ UpdateProcessed(w) /\ UNCHANGED batch_limit
        \/ ProcessReturn(w) /\ batch_limit' = [batch_limit EXCEPT ![w] = 0]

SpecClaim == InitClaim /\ [][NextClaim]_vars

\* one invocation at a time over a database that works; the servers answer
\* or fail, and a url may be no url
InitError == InitProcess

NextError ==
    /\ UNCHANGED <<ivars, rvars, cvars>>
    /\
      \/ ProcessSelect(1)
      \/ UpdateProcessing(1)
      \/ fetchText(1)
      \/ fetchTextRejects(1)
      \/ callOpenAI(1, ModelOutputs)
      \/ InsertProcessed(1)
      \/ UpdateProcessed(1)
      \/ CatchUpdateError(1)
      \/ ProcessReturn(1)

SpecError == InitError /\ [][NextError]_vars

InitIngest ==
    /\ raw_items = << >>
    /\ processed_items = << >>
    /\ pc = [w \in Workers |-> "idle"]
    /\ picked = [w \in Workers |-> << >>]
    /\ idx = [w \in Workers |-> 1]
    /\ out = [w \in Workers |-> NoOutput]
    /\ msg = [w \in Workers |-> NULL]
    /\ results = [w \in Workers |-> << >>]
    /\ enriched = [w \in Workers |-> {}]
    /\ throws = 0
    /\ InitIngestIdle
    /\ InitReportIdle
    /\ InitSources

NextIngest ==
    /\ UNCHANGED cvars
    /\ \E c \in Clients :
        \/ IngestBegin(c)
        \/ \E b \in Bodies : POST(c, b)
        \/ \E b \in Bodies : POST_part_002(c, b)
        \/ BadRequest(c)
        \/ IngestFails(c)

SpecIngest == InitIngest /\ [][NextIngest]_vars

\* forwards of a url under every kind of vertical: a member of the set, one in
\* capitals, blanks only, and one that is not a member
VerticalBodies ==
    { [url |-> [pad |-> FALSE, n |-> n], vertical |-> v, attribution |-> "none",
       metadata |-> [kind |-> "absent"], posted_at |-> NULL] :
         n \in 1..NumUrls, v \in {"ree", "POLICY", "  ", "Gold"} }

InitVertical == InitIngest

NextVertical ==
    /\ UNCHANGED cvars
    /\ \E c \in Clients :
        \/ IngestBegin(c)
        \/ \E b \in VerticalBodies : POST(c, b)
        \/ \E b \in VerticalBodies : POST_part_002(c, b)
        \/ BadRequest(c)
        \/ IngestFails(c)

SpecVertical == InitVertical /\ [][NextVertical]_vars

InitReport == InitIngest

NextReport ==
    /\ UNCHANGED cvars
    /\ \E r \in Reporters :
          \/ BadSourceId(r)
          \/ ReportBegin(r)
          \/ ReportUpdate(r)
          \/ ReportInsert(r)
          \/ ReportCommit(r)
          \/ ReportRollback(r)

SpecReport == InitReport /\ [][NextReport]_vars

\* the scheduler: due-sources requests, time, and the reports of one crawler
\* that found nothing new (etag and last_modified, no seen_keys)
InitDue ==
    /\ raw_items = << >>
    /\ processed_items = << >>
    /\ pc = [w \in Workers |-> "idle"]
    /\ picked = [w \in Workers |-> << >>]
    /\ idx = [w \in Workers |-> 1]
    /\ out = [w \in Workers |-> NoOutput]
    /\ msg = [w \in Workers |-> NULL]
    /\ results = [w \in Workers |-> << >>]
    /\ enriched = [w \in Workers |-> {}]
    /\ throws = 0
    /\ InitIngestIdle
    /\ InitReportIdle
    /\ InitDueSources

NextDue ==
  /\ UNCHANGED cvars
  /\
    \/ GET_part_001
    \/ DueFails
    \/ Tick
    \/ BadSourceId(1)
    \/ ReportBegin(1)
    \/ ReportUpdate(1) /\ txn'[1].last_error = NULL
    \/ ReportInsert(1) /\ txn'[1].seen_keys = << >>
    \/ ReportCommit(1)
    \/ ReportRollback(1)

SpecDue == InitDue /\ [][NextDue]_vars

\* a crawler asks for the due sources when it has none left to report
CrawlerPolls ==
    /\ todo = << >>
    /\ rpc[1] = "idle"
    /\ GET_part_001
    /\ todo' = dlast'.sources
    /\ UNCHANGED batch_limit

\* the crawler opens the report of the first source it still holds
CrawlerBegins ==
    /\ todo # << >>
    /\ ReportBegin(1)
    /\ txn'[1].source_id = Head(todo)
    /\ UNCHANGED <<todo, batch_limit>>

\* the report of the crawler commits: the source is done
CrawlerCommits ==
    /\ ReportCommit(1)
    /\ todo' = Tail(todo)
    /\ UNCHANGED batch_limit

\* the steps of the crawler: due-sources requests and reports that found
\* nothing new, over a database that works
CrawlerStep ==
    \/ CrawlerPolls
    \/ CrawlerBegins
    \/ ReportUpdate(1) /\ txn'[1].last_error = NULL /\ UNCHANGED <<todo, batch_limit>>
    \/ ReportInsert(1) /\ txn'[1].seen_keys = << >> /\ UNCHANGED <<todo, batch_limit>>
    \/ CrawlerCommits

\* one crawler that keeps running while time passes
InitCrawl == InitDue

NextCrawl ==
    \/ CrawlerStep
    \/ Tick /\ UNCHANGED <<todo, batch_limit>>

SpecCrawl == InitCrawl /\ [][NextCrawl]_vars /\ WF_vars(CrawlerStep)

\* ------------------------------------------------------------------ process: properties

\* C1: the raw items two concurrently running invocations pick and pass on to
\* enrichment are disjoint: no raw item is taken by two invocations.
C1_PickedDisjoint ==
    \A w1, w2 \in Workers : w1 # w2 => enriched[w1] \cap enriched[w2] = {}

\* C2: once a raw item's status is processed, no step of any invocation makes
\* it error.
C2_ProcessedNeverError ==
    [][\A i \in DOMAIN raw_items :
          raw_items[i].status = "processed" => raw_items'[i].status # "error"]_vars

EnrichmentFields(r) ==
    <<r.raw_item_id, r.vertical, r.url, r.title, r.summary_1, r.bullets,
      r.why_it_matters, r.tags, r.relevance_score, r.visibility, r.model>>

OnePerRawItem ==
    \A j, k \in DOMAIN processed_items :
        j # k => processed_items[j].raw_item_id # processed_items[k].raw_item_id

\* C3: there is at most one processed_items row per raw_item_id, and a row that
\* exists keeps its enrichment fields in every later step (first write wins).
C3_OnePerRawItemFirstWriteWins ==
    /\ []OnePerRawItem
    /\ [][\A k \in DOMAIN processed_items :
            /\ k \in DOMAIN processed_items'
            /\ EnrichmentFields(processed_items'[k]) = EnrichmentFields(processed_items[k])]_vars

\* two invocations have both run the insert for the same raw item, with
\* different model outputs
C3_Witness ==
    \E w1, w2 \in Workers :
        /\ w1 # w2
        /\ pc[w1] = "update_processed" /\ pc[w2] = "update_processed"
        /\ rawId(w1) = rawId(w2)
        /\ out[w1] # out[w2]
        /\ Len(processed_items) > 0

\* C4: claim is all-or-nothing: when the transition to processing fails for a
\* selected row, the invocation has passed no row on to enrichment and has
\* left no row marked processing.
C4_ClaimAllOrNothing ==
    [][\A w \in Workers :
          UpdateProcessingFails(w) =>
              /\ enriched'[w] = {}
              /\ \A k \in 1..(idx[w] - 1) : raw_items'[picked[w][k]].status # "processing"]_vars

\* ------------------------------------------------------------------ ingest: properties

UniqueUrlHash ==
    \A i, j \in DOMAIN raw_items :
        i # j => raw_items[i].url_hash # raw_items[j].url_hash

\* an ingest handler answers 200 in this step
IngestAnswers ==
    /\ last'.status = 200
    /\ \E c \in Clients : ipc[c] = "query" /\ ipc'[c] = "idle"

\* C5: there is at most one raw_items row per url_hash; an ingest answers
\* inserted=true exactly when no row held the url before it, and then adds one
\* row; otherwise it answers inserted=false and adds none.
C5_OneRowPerUrlHash ==
    /\ []UniqueUrlHash
    /\ [][IngestAnswers =>
            /\ last'.inserted =
                  (\A i \in DOMAIN raw_items : raw_items[i].url_hash # last'.url_hash)
            /\ Cardinality(DOMAIN raw_items') =
                  Cardinality(DOMAIN raw_items) + (IF last'.inserted THEN 1 ELSE 0)]_vars

\* a later ingest of a url that has its row was answered inserted=false
C5_Witness ==
    /\ last.status = 200
    /\ ~last.inserted
    /\ \E i \in DOMAIN raw_items : raw_items[i].url_hash = last.url_hash
    /\ Cardinality(DOMAIN raw_items) = NumUrls

Frame(r) ==
    <<r.source, r.source_channel_id, r.source_message_id, r.author_id,
      r.author_username, r.vertical, r.url, r.status>>

\* C6: no ingest changes the attribution fields, vertical, url or status of a
\* row that exists; a duplicate may change its metadata only.
C6_DuplicateKeepsAttribution ==
    [][\A i \in DOMAIN raw_items :
          /\ i \in DOMAIN raw_items'
          /\ Frame(raw_items'[i]) = Frame(raw_items[i])]_vars

\* a duplicate that carried another source than the stored one was answered
C6_Witness ==
    /\ last.status = 200
    /\ ~last.inserted
    /\ last.id # None
    /\ raw_items[last.id[1]].source # last.source

\* the keys the caller supplied: those of body.metadata, and body.posted_at
CallerMetadata(b) ==
    JsonConcat(incomingMeta(b),
               IF b.posted_at # NULL THEN [k \in {"posted_at"} |-> b.posted_at]
               ELSE EmptyObject)

\* C7: a duplicate ingest (through ingest/route.ts, finding the existing row)
\* leaves as metadata the shallow union of the stored metadata and the keys the
\* caller supplied: supplied keys take the caller's value, all others keep theirs.
C7_MetadataShallowUnion ==
    [][\A c \in Clients : \A b \in Bodies :
          (POST(c, b) /\ Conflicting(raw_items, Params(b)) \cap snap[c] # {}) =>
              \A i \in Conflicting(raw_items, Params(b)) :
                  raw_items'[i].metadata =
                      JsonConcat(raw_items[i].metadata, CallerMetadata(b))]_vars

\* C8: every ingest answered 200 returns the id of the row that holds the url.
C8_ReturnsRowId ==
    last.status = 200 =>
        /\ last.id # None
        /\ last.id[1] \in DOMAIN raw_items
        /\ raw_items[last.id[1]].url_hash = last.url_hash

\* ------------------------------------------------------------------ report: properties

ReportCommits(r) == rpc[r] = "commit" /\ rpc'[r] = "idle" /\ rlast'.status = 200

\* both sub-writes of the transaction of r are visible after the step, and
\* nothing else has changed
BothVisible(r) ==
    LET t == txn[r] IN
    /\ sources'[t.source_id].last_polled_at = Some(t.now)
    /\ sources'[t.source_id].etag = t.etag
    /\ sources'[t.source_id].last_modified = t.last_modified
    /\ sources'[t.source_id].last_error = t.last_error
    /\ \A i \in DOMAIN sources : i # t.source_id => sources'[i] = sources[i]
    /\ DOMAIN source_seen' =
          (DOMAIN source_seen) \cup {<<t.source_id, k>> : k \in Range(t.keys)}

\* C9: report is atomic: a step that answers 200 makes the bookkeeping update
\* and the seen keys of that call visible together, and no other step (a
\* failure or crash at any point of report included) changes sources or
\* source_seen at all.
C9_ReportAtomic ==
    [][/\ \A r \in Reporters : ReportCommits(r) => BothVisible(r)
       /\ (sources' # sources \/ source_seen' # source_seen) =>
              \E r \in Reporters : ReportCommits(r)]_vars

\* a report failed after its update and its insert of new keys had run, and
\* neither is visible
C9_Witness ==
    /\ rlast.status = 500
    /\ rlast.at = "commit"
    /\ rlast.rows > 0
    /\ DOMAIN source_seen = {}
    /\ \A i \in DOMAIN sources : sources[i].last_polled_at = None

\* the keys of all seen_keys lists of the reports that succeeded
AllReported == {<<x.source_id, x.item_key>> : x \in reported}

\* those of them the handler kept (seenKeys)
KeptReported == {<<x.source_id, x.item_key>> : x \in {y \in reported : y.kept}}

StoredOnce == \A row \in DOMAIN source_seen : source_seen[row] = 1

\* C10 as stated: the seen-set is the union of all seen_keys of the reports
\* that succeeded, every <<source_id, item_key>> is stored once, and no step
\* removes a row.
C10_SeenSetIsUnionOfAll ==
    /\ [](DOMAIN source_seen = AllReported /\ StoredOnce)
    /\ [][(DOMAIN source_seen) \subseteq (DOMAIN source_seen')]_vars

\* C10 amended: the seen-set is the union of the non-empty seen_keys of the
\* reports that succeeded (each of at most MaxSeenKeys keys), every
\* <<source_id, item_key>> is stored once, and no step removes a row.
C10_SeenSetIsUnion ==
    /\ [](DOMAIN source_seen = KeptReported /\ StoredOnce)
    /\ [][(DOMAIN source_seen) \subseteq (DOMAIN source_seen')]_vars

\* a report of two keys succeeded of which one was stored already, after a
\* report that carried an empty key
C10_Witness ==
    /\ rlast.status = 200
    /\ rlast.seen = 2
    /\ rlast.ignored = 1
    /\ \E x \in reported : x.item_key = ""

\* C11: the count a successful report returns is the number of seen-keys that
\* call newly recorded: the submitted keys that were not in the seen-set of
\* the source before it.
C11_ReturnsNewlyRecorded ==
    [][\A r \in Reporters :
          ReportCommits(r) => rlast'.seen = Cardinality(txn[r].rows)]_vars

\* ------------------------------------------------------------------ due sources: properties

\* enabled, of type rss, and never polled or polled at least poll_interval_min
\* minutes ago
Eligible ==
    {i \in DOMAIN sources :
        /\ sources[i].enabled
        /\ sources[i].type = "rss"
        /\ \/ sources[i].last_polled_at = None
           \/ clock - sources[i].last_polled_at[1] >= sources[i].poll_interval_min}

\* never polled first, then by ascending last_polled_at, then by ascending id
SortKey(i) ==
    IF sources[i].last_polled_at = None THEN <<0, 0, i>>
    ELSE <<1, sources[i].last_polled_at[1], i>>

Precedes(i, j) ==
    LET a == SortKey(i)
        b == SortKey(j)
    IN
    \/ a[1] < b[1]
    \/ a[1] = b[1] /\ a[2] < b[2]
    \/ a[1] = b[1] /\ a[2] = b[2] /\ a[3] < b[3]

\* C12: dueSources returns exactly the enabled rss sources that were never
\* polled or whose poll interval has elapsed, up to limit, never-polled first,
\* then by ascending last_polled_at, ties by ascending id.
C12_DueSources ==
    [][(dlast' # dlast /\ dlast'.status = 200) =>
          LET res == dlast'.sources IN
          /\ Range(res) \subseteq Eligible
          /\ Len(res) = Min(dlast'.limit, Cardinality(Eligible))
          /\ \A k, l \in DOMAIN res : k < l => Precedes(res[k], res[l])
          /\ \A i \in Eligible \ Range(res) :
                \A k \in DOMAIN res : Precedes(res[k], i)]_vars

\* a request returned a never-polled source before a source of lower id that
\* was polled and is due again
C12_Witness ==
    /\ dlast.status = 200
    /\ Len(dlast.sources) = 2
    /\ dlast.sources[1] > dlast.sources[2]
    /\ sources[dlast.sources[1]].last_polled_at = None
    /\ sources[dlast.sources[2]].last_polled_at # None

\* ------------------------------------------------------------------ enrichment: properties

\* C13: no ProcessedItem is persisted from a model result whose bullets are
\* not exactly 5 entries that are non-empty after trimming.
C13_BulletsFiveNonEmpty ==
    \A k \in DOMAIN processed_items :
        /\ Len(processed_items[k].bullets) = 5
        /\ \A j \in DOMAIN processed_items[k].bullets :
              Trim(processed_items[k].bullets[j]) # ""

\* C14: no ProcessedItem is persisted from a model result whose summary is
\* empty after trimming: every persisted summary is non-empty.
C14_SummaryNonEmpty ==
    \A k \in DOMAIN processed_items : Trim(processed_items[k].summary_1) # ""

\* C15: the relevance_score of every persisted ProcessedItem is an integer in
\* [0,100].
C15_RelevanceClamped ==
    \A k \in DOMAIN processed_items :
        /\ "number" \in DOMAIN processed_items[k].relevance_score
        /\ processed_items[k].relevance_score.number \in 0..100

\* the tags the prompt of callOpenAI lists
Vocabulary ==
    {"Mining", "Concentrate", "MREC", "Separation", "Metal", "Magnet", "Recycling",
     "Policy", "Finance", "Other"}

\* C16: the tags of every persisted ProcessedItem are 1 to 8 entries, each of
\* the closed vocabulary.
C16_TagsFromVocabulary ==
    \A k \in DOMAIN processed_items :
        /\ Len(processed_items[k].tags) \in 1..8
        /\ Range(processed_items[k].tags) \subseteq Vocabulary

\* C17: the visibility of every persisted ProcessedItem is public, pro or
\* internal.
C17_VisibilityEnum ==
    \A k \in DOMAIN processed_items :
        processed_items[k].visibility \in {"public", "pro", "internal"}

\* C18: the vertical of every raw item ingest created is ree, coal or policy.
C18_VerticalClosed ==
    \A i \in DOMAIN raw_items : raw_items[i].vertical \in {"ree", "coal", "policy"}

\* ------------------------------------------------------------------ batch: properties

\* C19: a failure of an item at fetch, model call or validation is caught for
\* that item and does not stop the batch: the invocation goes on to record the
\* failure, and a batch that returns has one result per picked row, in order.
C19_BatchContinues ==
    /\ [](\A w \in Workers :
            pc[w] = "return" =>
                /\ Len(results[w]) = Len(picked[w])
                /\ \A k \in DOMAIN picked[w] : results[w][k].id = picked[w][k])
    /\ [][\A w \in Workers :
            (pc[w] \in {"fetch", "model"} /\ pc'[w] # pc[w]) =>
                pc'[w] \in {"model", "insert", "catch"}]_vars

\* a batch of two returned: the first row failed at fetch, model call or
\* validation, and the second row succeeded
C19_Witness ==
    \E w \in Workers :
        /\ pc[w] = "return"
        /\ Len(picked[w]) = 2
        /\ ~results[w][1].ok
        /\ results[w][1].error # "db error"
        /\ results[w][2].ok

\* C20: every change of a raw item's status is new -> processing,
\* processing -> processed or processing -> error.
C20_StatusTransitions ==
    [][\A i \in DOMAIN raw_items :
          raw_items'[i].status # raw_items[i].status =>
              <<raw_items[i].status, raw_items'[i].status>> \in
                  { <<"new", "processing">>, <<"processing", "processed">>,
                    <<"processing", "error">> }]_vars

\* C21: there is no automatic retry: a select never returns a raw item whose
\* status is error, and no invocation passes a raw item on to fetchText while
\* its status is error.
C21_NoRetryOfError ==
    [][\A w \in Workers :
          /\ (pc[w] = "idle" /\ pc'[w] = "update_processing") =>
                \A k \in DOMAIN picked'[w] : raw_items[picked'[w][k]].status # "error"
          /\ \A i \in enriched'[w] \ enriched[w] : raw_items[i].status # "error"]_vars

\* C22: every raw item that is moved to status processing eventually reaches
\* status processed or error.
C22_ProcessingSettles ==
    \A i \in 1..NumItems :
        (raw_items[i].status = "processing") ~>
            (raw_items[i].status \in {"processed", "error"})

\* ------------------------------------------------------------------ C23
\* the value of last_polled_at of a source
PolledAt == {None} \cup {Some(t) : t \in 1..MaxClock}

Claims(w) == pc[w] = "idle" /\ pc'[w] \in {"update_processing", "return"}

\* C24: a claim picks at most limit rows, limit at most 50, all of status
\* new, and leaves no row of status new unpicked that is strictly older
\* (created_at) than a row it picked
C24_ClaimFifoBounded ==
    [][\A w \in Workers :
          Claims(w) =>
             LET s == picked'[w] IN
             /\ batch_limit'[w] <= 50
             /\ Len(s) <= batch_limit'[w]
             /\ \A k \in DOMAIN s : raw_items[s[k]].status = "new"
             /\ \A i \in NewIds \ Range(s) : \A k \in DOMAIN s :
                   ~(raw_items[i].created_at < raw_items[s[k]].created_at)]_vars

\* invocation 1 asked for one row and holds raw item 2, the older one, while
\* raw item 1 is left new; invocation 2 asked for 51 rows and got a limit of 50
C24_Witness ==
    /\ pc[1] = "update_processing"
    /\ batch_limit[1] = 1
    /\ picked[1] = <<2>>
    /\ raw_items[1].status = "new"
    /\ raw_items[2].created_at < raw_items[1].created_at
    /\ batch_limit[2] = 50

\* ------------------------------------------------------------------ C25
\* the longest message processBatch composes itself
LastErrorBound == 19 + MaxErrorText

\* C25: the last_error of every raw item is cut to a fixed length: it is
\* never longer than the bound, however long the message of the error was
C25_LastErrorTruncated ==
    \A i \in DOMAIN raw_items :
        raw_items[i].last_error # NULL =>
            Length(raw_items[i].last_error) <= LastErrorBound

\* ------------------------------------------------------------------ C26
\* C26: a raw item of status processed has a processed item with its
\* raw_item_id, no last_error and a processed_at
C26_ProcessedComplete ==
    \A i \in DOMAIN raw_items :
        raw_items[i].status = "processed" =>
            /\ \E k \in DOMAIN processed_items : processed_items[k].raw_item_id = i
            /\ raw_items[i].last_error = NULL
            /\ raw_items[i].processed_at # None

\* raw item 1 is processed after an invocation that is still running recorded
\* a failure on it: the update to processed has cleared that last_error
C26_Witness ==
    /\ raw_items[1].status = "processed"
    /\ \E w \in Workers : \E k \in DOMAIN results[w] :
          results[w][k].id = 1 /\ results[w][k].ok = FALSE

\* ------------------------------------------------------------------ C27
\* no invocation of the process handler is in flight
Quiescent == \A w \in Workers : pc[w] = "idle"

\* C27: when no invocation is in flight, a raw item has a processed item if
\* and only if its status is processed
C27_QuiescentConsistent ==
    Quiescent =>
        \A i \in DOMAIN raw_items :
            (\E k \in DOMAIN processed_items : processed_items[k].raw_item_id = i)
                <=> raw_items[i].status = "processed"

====
